---- MODULE Spec2Model ----
(***************************************************************************)
(* State-machine model of the HANA / Snowflake table comparison script     *)
(* (hana_snowflake_comparison.py, in its two copies) and of the connection *)
(* singletons it uses (db_connection.py).                                  *)
(*                                                                         *)
(* Values.  A database cell as the driver returns it (cursor.fetchall) is  *)
(* a Python object: int, float, str, bool, None or datetime.  A cell of a  *)
(* pandas frame is what pd.DataFrame made of it, which depends on the      *)
(* dtype pandas infers for the whole column.  Both are records             *)
(* [t, w, f]: t the type tag, w the whole part (or the identity of a       *)
(* string / timestamp), f the fractional part of a float counted in ulps   *)
(* of a double in [8, 16), i.e. in units of 2^-49.                         *)
(***************************************************************************)
EXTENDS Integers, Sequences, FiniteSets, TLC

\* ------------------------------------------------------------------ bounds
\* Rows per side in the general specification.
MaxRows == 2
\* compare_tables calls made on one DatabaseComparator.
MaxRuns == 2
\* Key values 1..MaxKey.
MaxKey == 2

\* --------------------------------------------------------------- constants
\* 1e-10 counted in ulps of a double in [8, 16): 1e-10 / 2^-49 = 56294.995...,
\* so a gap of k ulps exceeds the tolerance exactly when k > 56294.
TolUlps == 56294

\* ------------------------------------------------------------------ values
Val(t, w, f) == [t |-> t, w |-> w, f |-> f]

\* Driver-side (Python) values.
DbInt(n)      == Val("int", n, 0)
DbFloat(w, f) == Val("float", w, f)
DbStr(n)      == Val("str", n, 0)
DbBool(n)     == Val("bool", n, 0)
DbNone        == Val("none", 0, 0)
DbTs(n)       == Val("datetime", n, 0)

\* Frame-side values: numpy scalars and the Python objects of object columns.
NpInt(n)      == Val("int64", n, 0)      \* numpy.int64: not an instance of int
NpFloat(w, f) == Val("float", w, f)      \* numpy.float64: an instance of float
NaN           == Val("nan", 0, 0)        \* numpy.float64 nan: an instance of float
NpBool(n)     == Val("bool_", n, 0)      \* numpy.bool_: not an instance of int
NaT           == Val("nat", 0, 0)
PyNone        == Val("none", 0, 0)

Range(s) == {s[i] : i \in DOMAIN s}

Abs(x) == IF x < 0 THEN -x ELSE x

Min(a, b) == IF a < b THEN a ELSE b

\* ------------------------------------------------- pd.DataFrame(data, columns)
\* The dtype pandas infers for a column holding the driver values vals.
InferDtype(vals) ==
    LET kinds   == {vals[i].t : i \in DOMAIN vals} \ {"none"}
        hasNone == \E i \in DOMAIN vals : vals[i].t = "none"
    IN  IF kinds = {} THEN "object"
        ELSE IF kinds = {"int"} THEN (IF hasNone THEN "float64" ELSE "int64")
        ELSE IF kinds \subseteq {"int", "float"} THEN "float64"
        ELSE IF kinds = {"bool"} THEN (IF hasNone THEN "object" ELSE "bool")
        ELSE IF kinds = {"datetime"} THEN "datetime64"
        ELSE "object"

\* The frame cell pandas stores for driver value v in a column of that dtype.
Represent(dtype, v) ==
    CASE dtype = "int64"      -> NpInt(v.w)
      [] dtype = "float64"    -> IF v.t = "none" THEN NaN ELSE NpFloat(v.w, v.f)
      [] dtype = "bool"       -> NpBool(v.w)
      [] dtype = "datetime64" -> IF v.t = "none" THEN NaT ELSE v
      [] OTHER                -> v

\* A table of the database: [cols: sequence of column names, rows: sequence of
\* functions from column name to driver value].  The frame execute_query returns
\* has the same columns, a dtype per column, and the represented cells.
DataFrame(table) ==
    LET colvals(c) == [i \in DOMAIN table.rows |-> table.rows[i][c]]
        dt == [c \in Range(table.cols) |-> InferDtype(colvals(c))]
    IN  [columns |-> table.cols,
         dtypes  |-> dt,
         rows    |-> [i \in DOMAIN table.rows |->
                        [c \in Range(table.cols) |-> Represent(dt[c], table.rows[i][c])]],
         index   |-> [i \in DOMAIN table.rows |-> <<>>]]

\* ------------------------------------------------------ df.set_index(key_columns)
\* The key columns that are not columns of the frame (set_index raises KeyError).
MissingKeys(df, key_columns) ==
    {key_columns[j] : j \in DOMAIN key_columns} \ Range(df.columns)

\* Mutant of SetIndexError: an empty key list is let through.
SetIndexErrorMissingOnly(df, key_columns) ==
    IF MissingKeys(df, key_columns) # {} THEN "KeyError" ELSE "none"

\* set_index raises: KeyError for a missing key column, ValueError for no key
\* column at all ("Must pass non-zero number of levels/codes").
SetIndexError(df, key_columns) ==
    IF MissingKeys(df, key_columns) # {} THEN "KeyError"
    ELSE IF Len(key_columns) = 0 THEN "ValueError"
    ELSE "none"

\* The key of a row: the tuple of its key-column cells (a one-column key is a
\* scalar in pandas; line 208 wraps it in a list, so a 1-tuple stands for it).
KeyOf(row, key_columns) ==
    [j \in DOMAIN key_columns |->
        IF key_columns[j] \in DOMAIN row THEN row[key_columns[j]] ELSE PyNone]

\* Mutant of SetIndex: the key columns stay among the columns (drop=False).
SetIndexKeepsKeys(df, key_columns) ==
    [columns |-> df.columns,
     dtypes  |-> df.dtypes,
     rows    |-> df.rows,
     index   |-> [i \in DOMAIN df.rows |-> KeyOf(df.rows[i], key_columns)]]

\* df.set_index(key_columns): the key columns become the index and leave the
\* columns.
SetIndex(df, key_columns) ==
    LET rest == SelectSeq(df.columns, LAMBDA c : c \notin Range(key_columns))
    IN  [columns |-> rest,
         dtypes  |-> [c \in Range(rest) |-> df.dtypes[c]],
         rows    |-> [i \in DOMAIN df.rows |-> [c \in Range(rest) |-> df.rows[i][c]]],
         index   |-> [i \in DOMAIN df.rows |-> KeyOf(df.rows[i], key_columns)]]

\* ------------------------------------------------------------ pandas Index
\* Keys are tuples of integer cells; they sort lexicographically.
RECURSIVE KeyLessFrom(_, _, _)
KeyLessFrom(a, b, j) ==
    IF j > Len(a) \/ j > Len(b) THEN Len(a) < Len(b)
    ELSE IF a[j].w # b[j].w THEN a[j].w < b[j].w
    ELSE KeyLessFrom(a, b, j + 1)

KeyLess(a, b) == KeyLessFrom(a, b, 1)

RECURSIVE SortKeys(_)
SortKeys(S) ==
    IF S = {} THEN <<>>
    ELSE LET m == CHOOSE x \in S : \A y \in S \ {x} : KeyLess(x, y)
         IN  <<m>> \o SortKeys(S \ {m})

\* Index.unique(): the distinct keys in order of first appearance.
RECURSIVE IndexUnique(_)
IndexUnique(idx) ==
    IF Len(idx) = 0 THEN <<>>
    ELSE LET init == IndexUnique(SubSeq(idx, 1, Len(idx) - 1))
             last == idx[Len(idx)]
         IN  IF last \in Range(init) THEN init ELSE Append(init, last)

\* Mutant of IndexDifference: the keys of other are not taken out.
IndexDifferenceKeepsAll(idx, other) == SortKeys(Range(idx))

\* Index.difference(other): the distinct keys of idx absent from other, sorted.
IndexDifference(idx, other) == SortKeys(Range(idx) \ Range(other))

\* Index.intersection(other): the distinct keys of idx that other holds too, in
\* the order of idx.
IndexIntersection(idx, other) ==
    SelectSeq(IndexUnique(idx), LAMBDA k : k \in Range(other))

\* The positions of the rows of df labelled key.
Locs(df, key) == {i \in DOMAIN df.index : df.index[i] = key}

\* --------------------------------------------------------- df.loc[...] forms
\* to_dict('records') boxes numpy scalars as the Python objects of equal value.
ToNative(x) ==
    CASE x.t = "int64" -> Val("int", x.w, 0)
      [] x.t = "bool_" -> Val("bool", x.w, 0)
      [] OTHER         -> x

\* df.loc[keys].reset_index().to_dict('records'): for each key in turn, every
\* row labelled with it, as a dict of the key columns and the other columns.
RECURSIVE RowsAt(_, _, _)
RowsAt(df, key, i) ==
    IF i > Len(df.index) THEN <<>>
    ELSE (IF df.index[i] = key THEN <<i>> ELSE <<>>) \o RowsAt(df, key, i + 1)

\* Mutant of RecordOf: the record holds the key columns alone.
RecordOfKeyOnly(df, key_columns, i) ==
    [c \in Range(key_columns) |->
        ToNative(df.index[i][CHOOSE j \in DOMAIN key_columns : key_columns[j] = c])]

RecordOf(df, key_columns, i) ==
    [c \in Range(key_columns) \cup Range(df.columns) |->
        IF c \in Range(key_columns)
        THEN ToNative(df.index[i][CHOOSE j \in DOMAIN key_columns : key_columns[j] = c])
        ELSE ToNative(df.rows[i][c])]

RECURSIVE LocRecords(_, _, _)
LocRecords(df, key_columns, keys) ==
    IF Len(keys) = 0 THEN <<>>
    ELSE LET at == RowsAt(df, keys[1], 1)
         IN  [n \in DOMAIN at |-> RecordOf(df, key_columns, at[n])]
             \o LocRecords(df, key_columns, Tail(keys))

\* df.loc[key] for a key labelling one row: a Series over the columns.  pandas
\* interleaves the column dtypes: when every column is int64 or float64 and one
\* is float64, the int64 cells come out as float64.
SeriesAt(df, i) ==
    LET dts    == {df.dtypes[c] : c \in Range(df.columns)}
        upcast == dts \subseteq {"int64", "float64"} /\ "float64" \in dts
    IN  [c \in Range(df.columns) |->
            IF upcast /\ df.rows[i][c].t = "int64"
            THEN NpFloat(df.rows[i][c].w, 0)
            ELSE df.rows[i][c]]

\* ------------------------------------------------- the field comparison (l.189-204)
\* isinstance(x, (int, float)): Python int and bool (a subclass of int), float
\* and numpy.float64 (a subclass of float, nan included); numpy.int64 and
\* numpy.bool_ are neither.
IsIntOrFloat(x) == x.t \in {"int", "bool", "float", "nan"}

\* Mutant of AbsDiffExceeds: the gap is taken without abs().
AbsDiffExceedsOneSided(a, b) ==
    IF a.t = "nan" \/ b.t = "nan" THEN FALSE
    ELSE a.w > b.w \/ (a.w = b.w /\ a.f - b.f > TolUlps)

\* abs(float(a) - float(b)) > 1e-10 for two instances of int or float.  Any
\* comparison with nan is False.  Cells with different whole parts are at least
\* one unit apart; otherwise the gap is the difference of the ulp counts.
AbsDiffExceeds(a, b) ==
    IF a.t = "nan" \/ b.t = "nan" THEN FALSE
    ELSE a.w # b.w \/ Abs(a.f - b.f) > TolUlps

\* a != b, reached when a and b are not both instances of int or float.
NotEqual(a, b) ==
    LET num == {"int", "int64", "bool", "bool_", "float"}
    IN  IF a.t \in {"nan", "nat"} \/ b.t \in {"nan", "nat"} THEN TRUE
        ELSE IF a.t \in num /\ b.t \in num THEN a.w # b.w \/ a.f # b.f
        ELSE a.t # b.t \/ a.w # b.w

\* Whether the pair of cells is recorded as a difference.
CellDiffers(hana_val, snowflake_val) ==
    IF IsIntOrFloat(hana_val) /\ IsIntOrFloat(snowflake_val)
    THEN AbsDiffExceeds(hana_val, snowflake_val)
    ELSE NotEqual(hana_val, snowflake_val)

\* row[col] if col in row else None
CellOf(row, col) == IF col \in DOMAIN row THEN row[col] ELSE PyNone

\* The differences dict of one key whose rows are the Series hana_row and
\* snowflake_row: the unequal columns, each with both cells.
Differences(hana_row, snowflake_row, compare_columns) ==
    LET cols == {c \in Range(compare_columns) :
                    CellDiffers(CellOf(hana_row, c), CellOf(snowflake_row, c))}
    IN  [c \in cols |-> [hana_value      |-> CellOf(hana_row, c),
                         snowflake_value |-> CellOf(snowflake_row, c)]]

\* df.loc[key] is a DataFrame, not a Series, when key labels several rows; a
\* column taken from it is a Series, and the truth value of comparing a Series
\* raises ValueError.  It happens at the first compare column the frame holds.
KeyRaises(hana_df, snowflake_df, compare_columns, key) ==
    \E c \in Range(compare_columns) :
        \/ Cardinality(Locs(hana_df, key)) > 1 /\ c \in Range(hana_df.columns)
        \/ Cardinality(Locs(snowflake_df, key)) > 1 /\ c \in Range(snowflake_df.columns)

\* The row of df.loc[key]: the Series of the one row the key labels (of the
\* first, when none of its columns is read and the frame is never looked into).
RowOf(df, key) == SeriesAt(df, CHOOSE i \in Locs(df, key) : \A j \in Locs(df, key) : i <= j)

\* dict(zip(key_columns, key))
KeyDict(key_columns, key) ==
    [c \in Range(key_columns) |->
        key[CHOOSE j \in DOMAIN key_columns : key_columns[j] = c /\
                \A m \in DOMAIN key_columns : key_columns[m] = c => m <= j]]

\* Mutant of KeyRecords: a record is appended for a key with no difference too.
KeyRecordsAlways(hana_df, snowflake_df, key_columns, compare_columns, key) ==
    << [key |-> KeyDict(key_columns, key),
        differences |-> Differences(RowOf(hana_df, key), RowOf(snowflake_df, key),
                                    compare_columns)] >>

\* The record appended for one key (l.206-210), <<>> when nothing differs.
KeyRecords(hana_df, snowflake_df, key_columns, compare_columns, key) ==
    LET differences == Differences(RowOf(hana_df, key), RowOf(snowflake_df, key),
                                   compare_columns)
    IN  IF DOMAIN differences = {} THEN <<>>
        ELSE << [key |-> KeyDict(key_columns, key), differences |-> differences] >>

\* One pass of the inner loop (l.184-210) over chunk_keys, from its n-th key on:
\* [out: the records appended, err: whether a key raised, which ends the pass].
RECURSIVE ChunkPass(_, _, _, _, _, _)
ChunkPass(hana_df, snowflake_df, key_columns, compare_columns, chunk_keys, n) ==
    IF n > Len(chunk_keys) THEN [out |-> <<>>, err |-> FALSE]
    ELSE IF KeyRaises(hana_df, snowflake_df, compare_columns, chunk_keys[n])
         THEN [out |-> <<>>, err |-> TRUE]
    ELSE LET rest == ChunkPass(hana_df, snowflake_df, key_columns, compare_columns,
                               chunk_keys, n + 1)
         IN  [out |-> KeyRecords(hana_df, snowflake_df, key_columns, compare_columns,
                                 chunk_keys[n]) \o rest.out,
              err |-> rest.err]

\* Mutant of ChunkKeys: the slice comes out last key first.
ChunkKeysReversed(common_keys, i, chunk_size) ==
    LET last == Min(i + chunk_size, Len(common_keys))
    IN  [n \in 1..(last - i) |-> common_keys[last + 1 - n]]

\* Mutant of ChunkKeys: the slice ends one key early when it holds several.
ChunkKeysShort(common_keys, i, chunk_size) ==
    SubSeq(common_keys, i + 1,
           Min(i + chunk_size, Len(common_keys)) - (IF chunk_size > 1 THEN 1 ELSE 0))

\* common_keys[i:i + chunk_size] for i >= 0 and chunk_size > 0 (i counts from 0).
ChunkKeys(common_keys, i, chunk_size) ==
    SubSeq(common_keys, i + 1, Min(i + chunk_size, Len(common_keys)))

\* ------------------------------------------------------- column resolution (l.154)
\* list(set(a) & set(b)): the order of a set of strings is fixed within one
\* process by its hash seed and unspecified across processes.
AllColumns == <<"id", "k2", "v", "sx", "tx", "zz">>

Reverse(s) == [n \in DOMAIN s |-> s[Len(s) + 1 - n]]

SetToList(S, seed) ==
    SelectSeq(IF seed = 0 THEN AllColumns ELSE Reverse(AllColumns), LAMBDA c : c \in S)

ResolveColumns(given, hana_df, snowflake_df, seed) ==
    IF given.given THEN given.cols
    ELSE SetToList(Range(hana_df.columns) \cap Range(snowflake_df.columns), seed)

\* ------------------------------------------------------------------ inputs
Sides == {"hana", "snowflake"}

\* constants.key_columns: none, one, two, or a column neither table has.
KeySpecs == {<<>>, <<"id">>, <<"id", "k2">>, <<"zz">>}

\* --compare-columns: omitted, or a list naming a column only the source has.
CompareSpecs == {[given |-> FALSE, cols |-> <<>>], [given |-> TRUE, cols |-> <<"v", "sx">>]}

\* --chunk-size: any integer (type=int).
ChunkSizes == {-1, 0, 1, 2}

\* Sequences over S of length at most n.
RECURSIVE SeqsUpTo(_, _)
SeqsUpTo(S, n) ==
    IF n = 0 THEN {<<>>}
    ELSE LET shorter == SeqsUpTo(S, n - 1)
         IN  shorter \cup {Append(q, x) : q \in {r \in shorter : Len(r) = n - 1}, x \in S}

\* Tables with a shared value column v and one column of their own; the keys
\* come from ids and v from values.
RowsA(own, ids, values) ==
    {[c \in {"id", "k2", "v", own} |->
        CASE c = "id" -> DbInt(k) [] c = "k2" -> DbInt(0) [] c = "v" -> x [] OTHER -> DbStr(1)]
     : k \in ids, x \in values}

TablesA(own, ids, values) ==
    {[cols |-> <<"id", "k2", "v", own>>, rows |-> r]
     : r \in SeqsUpTo(RowsA(own, ids, values), MaxRows)}

\* Tables that share no column but the keys.
RowsB(own, ids) ==
    {[c \in {"id", "k2", own} |->
        CASE c = "id" -> DbInt(k) [] c = "k2" -> DbInt(0) [] OTHER -> DbStr(1)]
     : k \in ids}

TablesB(own, ids) ==
    {[cols |-> <<"id", "k2", own>>, rows |-> r] : r \in SeqsUpTo(RowsB(own, ids), MaxRows)}

\* Tables of one value column, whose content decides the dtype pandas infers:
\* every kind of cell alone, and the pairs that make pandas represent the first
\* cell differently (None in a float column, an int beside None, ...).
CellValues ==
    {DbInt(10), DbInt(1), DbFloat(10, 0), DbFloat(10, 56294), DbFloat(10, 56295),
     DbFloat(1, 0), DbNone, DbStr(1), DbStr(2), DbBool(1), DbTs(1)}

CellColumns ==
    {<<x>> : x \in CellValues} \cup
    {<<DbNone, DbFloat(11, 0)>>, <<DbInt(10), DbNone>>, <<DbNone, DbTs(2)>>,
     <<DbBool(1), DbNone>>, <<DbInt(10), DbStr(2)>>}

TablesC ==
    {[cols |-> <<"id", "v">>,
      rows |-> [n \in DOMAIN col |->
                  [c \in {"id", "v"} |-> IF c = "id" THEN DbInt(n) ELSE col[n]]]]
     : col \in CellColumns}

\* The source holds keys 1..MaxKey and the target 2..MaxKey+1, so a key can be
\* on either side alone or on both.
SourceIds == 1..MaxKey
TargetIds == 2..(MaxKey + 1)

TablePairs ==
    (TablesA("sx", SourceIds, {DbFloat(10, 0), DbFloat(10, 56295)})
        \X TablesA("tx", TargetIds, {DbFloat(10, 0)}))
    \cup (TablesB("sx", SourceIds) \X TablesB("tx", TargetIds))
    \cup (TablesC \X TablesC)

EmptyFrame == [columns |-> <<>>, dtypes |-> <<>>, rows |-> <<>>, index |-> <<>>]

NoResult ==
    [timestamp |-> 0, hana_row_count |-> 0, snowflake_row_count |-> 0,
     columns_compared |-> <<>>, only_in_hana |-> <<>>, only_in_snowflake |-> <<>>,
     value_differences |-> <<>>]

\* ------------------------------------------------------------------- state
VARIABLES
    variant,          \* which copy of the script runs: "root" or "data_ops"
    hana_table,       \* the source table in the database
    snowflake_table,  \* the target table in the database
    hashseed,         \* the process's set order, -1 until a set of two or more
                      \*   strings is first listed
    pc,               \* where main / compare_tables stands
    key_columns,      \* constants.key_columns as main read it
    args,             \* [compare_columns, chunk_size] of the current call
    hana_df,          \* compare_tables' local frames
    snowflake_df,
    compare_columns,  \* the resolved compare columns
    common_keys,
    i,                \* the chunk loop's index
    result,           \* the result dict under construction
    visited,          \* the common keys the inner loop has taken, in order
    returned,         \* [ok, value]: what compare_tables returned to its caller
    raised,           \* [kind, at, seen]: the exception raised, where, and
                      \*   whether main's except clause received it
    log,              \* what main logged
    report,           \* the output file: "none", "written" or "partial"
    exit,             \* "running", "returned" (main returned) or "raised"
    runs,             \* compare_tables calls made so far
    prev,             \* [ok, chunk_size, value]: the previous call that returned
    fetches,          \* execute_query calls of the current compare_tables call
    sing_conn,        \* per side, the singleton class's __conn: 0 for None
    sing_init,        \* per side, whether the singleton instance is initialized
    conn_attr,        \* per side, the connector's self.connection: 0 for None
    shadow,           \* per side, whether the connector class holds its own
                      \*   __conn = None, set by close_connection called on it
    closed,           \* the connections that were closed
    opened,           \* connections opened so far
    got,              \* per side, the get_connection calls on the singleton
                      \*   class: [n: calls made, conn: what the last one
                      \*   returned (0 for None), failed: whether one raised]
    clock             \* datetime.now()

vars == <<variant, hana_table, snowflake_table, hashseed, pc, key_columns, args,
          hana_df, snowflake_df, compare_columns, common_keys, i, result, visited,
          returned, raised, log, report, exit, runs, prev, fetches,
          sing_conn, sing_init, conn_attr, shadow, closed, opened, got, clock>>

inputVars == <<variant, hana_table, snowflake_table>>
connVars == <<sing_conn, sing_init, conn_attr, shadow, closed, opened, got>>
localVars == <<hana_df, snowflake_df, compare_columns, common_keys, i, result, visited>>

NoRaise == [kind |-> "none", at |-> "none", seen |-> FALSE]

InitRest ==
    /\ hashseed = -1
    /\ pc = "main"
    /\ key_columns = <<>>
    /\ args = [compare_columns |-> [given |-> FALSE, cols |-> <<>>], chunk_size |-> 10000]
    /\ hana_df = EmptyFrame
    /\ snowflake_df = EmptyFrame
    /\ compare_columns = <<>>
    /\ common_keys = <<>>
    /\ i = 0
    /\ result = NoResult
    /\ visited = <<>>
    /\ returned = [ok |-> FALSE, value |-> NoResult]
    /\ raised = NoRaise
    /\ log = {}
    /\ report = "none"
    /\ exit = "running"
    /\ runs = 0
    /\ prev = [ok |-> FALSE, chunk_size |-> 0, value |-> NoResult]
    /\ fetches = [s \in Sides |-> 0]
    /\ sing_conn = [s \in Sides |-> 0]
    /\ sing_init = [s \in Sides |-> FALSE]
    /\ conn_attr = [s \in Sides |-> 0]
    /\ shadow = [s \in Sides |-> FALSE]
    /\ closed = {}
    /\ opened = 0
    /\ got = [s \in Sides |-> [n |-> 0, conn |-> 0, failed |-> FALSE]]
    /\ clock = 0

Init ==
    /\ variant \in {"root", "data_ops"}
    /\ \E tp \in TablePairs : hana_table = tp[1] /\ snowflake_table = tp[2]
    /\ InitRest

\* ----------------------------------------------------------------- actions
\* Mutant of Handler: an error in the chunk loop is swallowed inside
\* compare_tables, which goes on to return what it has.
HandlerSwallowsLoop(at) == IF at = "loop" THEN "returned" ELSE "except"

\* Where control goes when an exception is raised at `at`: nothing in
\* compare_tables, execute_query or generate_report handles it (they log and
\* raise again), so it reaches the except clause of main's try statement.
Handler(at) == "except"

\* main up to the construction of the comparator.  The root script warns about
\* an empty key list and goes on; the data_ops script logs an error and returns.
EmptyKeysReturn(v, kc) == v = "data_ops" /\ Len(kc) = 0

MainStart ==
    /\ pc = "main"
    /\ \E kc \in KeySpecs :
        /\ key_columns' = kc
        /\ IF Len(kc) = 0
           THEN log' = log \cup {IF variant = "root" THEN "warning: no key columns"
                                                      ELSE "error: no key columns"}
           ELSE log' = log
        /\ IF EmptyKeysReturn(variant, kc)
           THEN pc' = "exit" /\ exit' = "returned"
           ELSE pc' = "call" /\ exit' = exit
    /\ UNCHANGED <<inputVars, hashseed, args, localVars, returned, raised, report,
                   runs, prev, fetches, connVars, clock>>

\* main calls compare_tables with the parsed arguments.
CallCompareTables ==
    /\ pc = "call"
    /\ \E cc \in CompareSpecs, cs \in ChunkSizes :
        args' = [compare_columns |-> cc, chunk_size |-> cs]
    /\ runs' = runs + 1
    /\ fetches' = [s \in Sides |-> 0]
    /\ pc' = "fetch_hana"
    /\ UNCHANGED <<inputVars, hashseed, key_columns, localVars, returned, raised, log,
                   report, exit, prev, connVars, clock>>

\* connector.execute_query: connect through the singleton when the connector
\* holds no connection, then run the query on the connection held.
\* [err, sing_conn, sing_init, conn_attr, opened, got] for side s.
ExecQuery(s, outcome) ==
    LET need        == conn_attr[s] = 0
        mustConnect == need /\ sing_conn[s] = 0 /\ ~sing_init[s]
        connFails   == mustConnect /\ outcome = "connect_fails"
        newSing     == IF mustConnect /\ ~connFails THEN opened + 1 ELSE sing_conn[s]
        newAttr     == IF need /\ ~connFails THEN newSing ELSE conn_attr[s]
    IN  [err       |-> IF connFails THEN "ConnectError"
                       ELSE IF newAttr = 0 THEN "AttributeError"
                       ELSE IF newAttr \in closed THEN "DriverError"
                       ELSE IF outcome = "query_fails" THEN "QueryError"
                       ELSE "none",
         connects  |-> mustConnect,
         sing_conn |-> newSing,
         sing_init |-> sing_init[s] \/ (mustConnect /\ ~connFails),
         conn_attr |-> newAttr,
         opened    |-> IF mustConnect /\ ~connFails THEN opened + 1 ELSE opened,
         got       |-> IF ~need THEN got[s]
                       ELSE [n      |-> got[s].n + 1,
                             conn   |-> IF connFails THEN got[s].conn ELSE newSing,
                             failed |-> got[s].failed \/ connFails]]

Fetch(s, at, next) ==
    /\ pc = at
    /\ \E outcome \in {"ok", "connect_fails", "query_fails"} :
        LET q == ExecQuery(s, outcome)
        IN  /\ outcome = "connect_fails" => q.connects
            /\ sing_conn' = [sing_conn EXCEPT ![s] = q.sing_conn]
            /\ sing_init' = [sing_init EXCEPT ![s] = q.sing_init]
            /\ conn_attr' = [conn_attr EXCEPT ![s] = q.conn_attr]
            /\ opened' = q.opened
            /\ got' = [got EXCEPT ![s] = q.got]
            /\ fetches' = [fetches EXCEPT ![s] = @ + 1]
            /\ IF q.err = "none"
               THEN /\ pc' = next
                    /\ raised' = raised
                    /\ IF s = "hana"
                       THEN hana_df' = DataFrame(hana_table) /\ snowflake_df' = snowflake_df
                       ELSE snowflake_df' = DataFrame(snowflake_table) /\ hana_df' = hana_df
               ELSE /\ pc' = Handler(at)
                    /\ raised' = [kind |-> q.err, at |-> at, seen |-> FALSE]
                    /\ UNCHANGED <<hana_df, snowflake_df>>
    /\ UNCHANGED <<inputVars, hashseed, key_columns, args, compare_columns, common_keys,
                   i, result, visited, returned, log, report, exit, runs, prev,
                   shadow, closed, clock>>

ExecuteQueryHana == Fetch("hana", "fetch_hana", "fetch_snowflake")

ExecuteQuerySnowflake == Fetch("snowflake", "fetch_snowflake", "index")

\* compare_tables l.147-178: index both frames by the key columns, resolve the
\* compare columns, start the result, and partition the keys.
IndexError(hdf, sdf, kc) ==
    IF SetIndexError(hdf, kc) # "none" THEN SetIndexError(hdf, kc)
    ELSE SetIndexError(sdf, kc)

\* Mutant of NewResult: value_differences starts from the list the comparator
\* filled last time instead of a fresh one.
NewResultLeaks(hdf, sdf, kc, cols, now) ==
    [timestamp         |-> now,
     hana_row_count    |-> Len(hdf.rows),
     snowflake_row_count |-> Len(sdf.rows),
     columns_compared  |-> cols,
     only_in_hana      |-> LocRecords(hdf, kc, IndexDifference(hdf.index, sdf.index)),
     only_in_snowflake |-> LocRecords(sdf, kc, IndexDifference(sdf.index, hdf.index)),
     value_differences |-> result.value_differences]

\* The result dict as initialised and filled by l.157-175.
NewResult(hdf, sdf, kc, cols, now) ==
    [timestamp         |-> now,
     hana_row_count    |-> Len(hdf.rows),
     snowflake_row_count |-> Len(sdf.rows),
     columns_compared  |-> cols,
     only_in_hana      |-> LocRecords(hdf, kc, IndexDifference(hdf.index, sdf.index)),
     only_in_snowflake |-> LocRecords(sdf, kc, IndexDifference(sdf.index, hdf.index)),
     value_differences |-> <<>>]

IndexAndPartition ==
    /\ pc = "index"
    /\ IF IndexError(hana_df, snowflake_df, key_columns) # "none"
       THEN /\ pc' = Handler("index")
            /\ raised' = [kind |-> IndexError(hana_df, snowflake_df, key_columns),
                          at |-> "index", seen |-> FALSE]
            /\ UNCHANGED <<hashseed, localVars, clock>>
       ELSE \E seed \in {0, 1} :
            LET hdf  == SetIndex(hana_df, key_columns)
                sdf  == SetIndex(snowflake_df, key_columns)
                cols == ResolveColumns(args.compare_columns, hdf, sdf, seed)
            IN  /\ IF args.compare_columns.given \/ Len(cols) < 2
                   THEN seed = 0 /\ hashseed' = hashseed
                   ELSE IF hashseed = -1 THEN hashseed' = seed
                   ELSE seed = hashseed /\ hashseed' = hashseed
                /\ hana_df' = hdf
                /\ snowflake_df' = sdf
                /\ compare_columns' = cols
                /\ clock' = clock + 1
                /\ result' = NewResult(hdf, sdf, key_columns, cols, clock + 1)
                /\ common_keys' = IndexIntersection(hdf.index, sdf.index)
                /\ i' = 0
                /\ visited' = <<>>
                /\ pc' = "loop"
                /\ raised' = raised
    /\ UNCHANGED <<inputVars, key_columns, args, returned, log, report, exit, runs, prev,
                   fetches, connVars>>

\* One iteration of the chunk loop (l.181-210).  range() raises for a step of 0.
ChunkStep ==
    /\ pc = "loop"
    /\ \/ args.chunk_size = 0
       \/ args.chunk_size > 0 /\ i < Len(common_keys)
    /\ IF args.chunk_size = 0
       THEN /\ pc' = Handler("loop")
            /\ raised' = [kind |-> "ValueError", at |-> "loop", seen |-> FALSE]
            /\ UNCHANGED <<i, result, visited>>
       ELSE LET chunk_keys == ChunkKeys(common_keys, i, args.chunk_size)
                pass == ChunkPass(hana_df, snowflake_df, key_columns, compare_columns,
                                  chunk_keys, 1)
            IN  /\ result' = [result EXCEPT !.value_differences = @ \o pass.out]
                /\ IF pass.err
                   THEN /\ pc' = Handler("loop")
                        /\ raised' = [kind |-> "ValueError", at |-> "loop", seen |-> FALSE]
                        /\ UNCHANGED <<i, visited>>
                   ELSE /\ pc' = "loop"
                        /\ raised' = raised
                        /\ i' = i + args.chunk_size
                        /\ visited' = visited \o chunk_keys
    /\ UNCHANGED <<inputVars, hashseed, key_columns, args, hana_df, snowflake_df,
                   compare_columns, common_keys, returned, log, report, exit, runs, prev,
                   fetches, connVars, clock>>

\* The loop is over (or never ran: range() with a negative step is empty) and
\* compare_tables returns the result (l.212-213).
LoopOver(chunk_size, idx, n) == chunk_size < 0 \/ (chunk_size > 0 /\ idx >= n)

ReturnResult ==
    /\ pc = "loop"
    /\ LoopOver(args.chunk_size, i, Len(common_keys))
    /\ returned' = [ok |-> TRUE, value |-> result]
    /\ pc' = "returned"
    /\ UNCHANGED <<inputVars, hashseed, key_columns, args, localVars, raised, log, report,
                   exit, runs, prev, fetches, connVars, clock>>

\* The caller calls compare_tables again on the same comparator, with the same
\* key and compare columns and any chunk size.
Recall ==
    /\ pc = "returned"
    /\ runs < MaxRuns
    /\ \E cs \in ChunkSizes : args' = [args EXCEPT !.chunk_size = cs]
    /\ prev' = [ok |-> TRUE, chunk_size |-> args.chunk_size, value |-> returned.value]
    /\ returned' = [ok |-> FALSE, value |-> NoResult]
    /\ runs' = runs + 1
    /\ fetches' = [s \in Sides |-> 0]
    /\ pc' = "fetch_hana"
    /\ UNCHANGED <<inputVars, hashseed, key_columns, localVars, raised, log, report, exit,
                   connVars, clock>>

\* main writes the report (generate_report in the root script, open + json.dump
\* inline in data_ops); json.dump may fail, after open() has made the file.
GenerateReport ==
    /\ pc = "returned"
    /\ \E outcome \in {"ok", "dump_fails"} :
        /\ report' = IF outcome = "ok" THEN "written" ELSE "partial"
        /\ IF outcome = "ok"
           THEN pc' = "finally" /\ raised' = raised /\ log' = log
           ELSE /\ pc' = Handler("report")
                /\ raised' = [kind |-> "ReportWriteError", at |-> "report", seen |-> FALSE]
                /\ log' = IF variant = "root" THEN log \cup {"error: generating report"}
                                               ELSE log
    /\ UNCHANGED <<inputVars, hashseed, key_columns, args, localVars, returned, exit, runs,
                   prev, fetches, connVars, clock>>

\* main's except clause: log the failure; the root script raises it again.
Reraises(v) == v = "root"

MainExcept ==
    /\ pc = "except"
    /\ log' = log \cup {"error: comparison failed"}
    /\ raised' = [raised EXCEPT !.seen = TRUE]
    /\ pc' = "finally"
    /\ UNCHANGED <<inputVars, hashseed, key_columns, args, localVars, returned, report,
                   exit, runs, prev, fetches, connVars, clock>>

\* main's finally clause: comparator.close_connections().  The root script calls
\* DatabaseConnector.close on each connector; the data_ops script calls the
\* singleton's close_connection classmethod through the connector, which reads
\* __conn through the connector class and sets it to None on that class.
ClassConn(s) == IF shadow[s] THEN 0 ELSE sing_conn[s]

MainFinally ==
    /\ pc = "finally"
    /\ IF variant = "root"
       THEN /\ closed' = closed \cup ({conn_attr[s] : s \in Sides} \ {0})
            /\ conn_attr' = [s \in Sides |-> 0]
            /\ shadow' = shadow
       ELSE /\ closed' = closed \cup ({ClassConn(s) : s \in Sides} \ {0})
            /\ shadow' = [s \in Sides |-> shadow[s] \/ ClassConn(s) # 0]
            /\ conn_attr' = conn_attr
    /\ pc' = "exit"
    /\ exit' = IF raised.seen /\ Reraises(variant) THEN "raised" ELSE "returned"
    /\ UNCHANGED <<inputVars, hashseed, key_columns, args, localVars, returned, raised, log,
                   report, runs, prev, fetches, sing_conn, sing_init, opened, got, clock>>

Next ==
    \/ MainStart
    \/ CallCompareTables
    \/ ExecuteQueryHana
    \/ ExecuteQuerySnowflake
    \/ IndexAndPartition
    \/ ChunkStep
    \/ ReturnResult
    \/ Recall
    \/ GenerateReport
    \/ MainExcept
    \/ MainFinally

Spec == Init /\ [][Next]_vars

\* --------------------------------------------- the connection singletons alone
\* A process that calls the classmethods of the singleton classes directly, in
\* any order; no query is run and the tables stay as they are.
MaxCalls == 3

InitSingleton ==
    /\ variant \in {"root", "data_ops"}
    /\ hana_table = [cols |-> <<"id", "v">>, rows |-> <<>>]
    /\ snowflake_table = [cols |-> <<"id", "v">>, rows |-> <<>>]
    /\ InitRest

\* get_connection (l.34-39): when __conn is None it calls cls(), whose __init__
\* connects only while the one instance is not yet initialized; then it returns
\* __conn, whatever that is.
GetConnection(s) ==
    /\ got[s].n < MaxCalls
    /\ \E outcome \in {"ok", "connect_fails"} :
        LET connects == sing_conn[s] = 0 /\ ~sing_init[s]
            fails    == connects /\ outcome = "connect_fails"
            conn     == IF connects /\ ~fails THEN opened + 1 ELSE sing_conn[s]
        IN  /\ outcome = "connect_fails" => connects
            /\ sing_conn' = [sing_conn EXCEPT ![s] = conn]
            /\ sing_init' = [sing_init EXCEPT ![s] = @ \/ (sing_conn[s] = 0 /\ ~fails)]
            /\ opened' = IF connects /\ ~fails THEN opened + 1 ELSE opened
            /\ got' = [got EXCEPT ![s] = [n      |-> @.n + 1,
                                          conn   |-> IF fails THEN @.conn ELSE conn,
                                          failed |-> @.failed \/ fails]]
    /\ UNCHANGED <<inputVars, hashseed, pc, key_columns, args, localVars, returned, raised,
                   log, report, exit, runs, prev, fetches, conn_attr, shadow, closed, clock>>

\* close_connection (l.41-49) called on the singleton class: close __conn when
\* there is one, and set it to None.
CloseConnection(s) ==
    /\ sing_conn[s] # 0
    /\ closed' = closed \cup {sing_conn[s]}
    /\ sing_conn' = [sing_conn EXCEPT ![s] = 0]
    /\ UNCHANGED <<inputVars, hashseed, pc, key_columns, args, localVars, returned, raised,
                   log, report, exit, runs, prev, fetches, sing_init, conn_attr, shadow,
                   opened, got, clock>>

GetConnectionHana == GetConnection("hana")

GetConnectionSnowflake == GetConnection("snowflake")

CloseConnectionHana == CloseConnection("hana")

CloseConnectionSnowflake == CloseConnection("snowflake")

NextSingleton ==
    \/ GetConnectionHana
    \/ GetConnectionSnowflake
    \/ CloseConnectionHana
    \/ CloseConnectionSnowflake

SpecSingleton == InitSingleton /\ [][NextSingleton]_vars

\* ------------------------------------------------------------------ claims
\* What the claims speak of, read from the database tables themselves.
TableKeys(table) == {KeyOf(table.rows[n], key_columns) : n \in DOMAIN table.rows}

NativeKey(k) == [j \in DOMAIN k |-> ToNative(k[j])]

RecordKeys(recs) == {KeyOf(recs[n], key_columns) : n \in DOMAIN recs}

CommonKeySet == {NativeKey(common_keys[n]) : n \in DOMAIN common_keys}

\* The frames are indexed and the keys partitioned for the current call.
Partitioned == pc \in {"loop", "returned"}

\* C1: once the keys are partitioned, the keys of only_in_hana and the common
\* keys are disjoint and together are exactly the keys of the source table, the
\* keys of only_in_snowflake and the common keys are disjoint and together are
\* exactly the keys of the target table, and no common key is listed twice.
C1_PartitionComplete ==
    Partitioned =>
        /\ RecordKeys(result.only_in_hana) \cap CommonKeySet = {}
        /\ RecordKeys(result.only_in_hana) \cup CommonKeySet = TableKeys(hana_table)
        /\ RecordKeys(result.only_in_snowflake) \cap CommonKeySet = {}
        /\ RecordKeys(result.only_in_snowflake) \cup CommonKeySet = TableKeys(snowflake_table)
        /\ Cardinality(Range(common_keys)) = Len(common_keys)

C1_Witness ==
    /\ pc = "returned"
    /\ result.only_in_hana # <<>>
    /\ result.only_in_snowflake # <<>>
    /\ common_keys # <<>>

\* A reported cell denotes the driver's value: the same object, a number of the
\* same value, or pandas' null (None, nan, NaT) for None.
SameValue(x, d) ==
    \/ x = d
    \/ x.t \in {"int", "float"} /\ d.t \in {"int", "float"} /\ x.w = d.w /\ x.f = d.f
    \/ d.t = "none" /\ x.t \in {"none", "nan", "nat"}

SameRow(rec, table, n) ==
    /\ DOMAIN rec = Range(table.cols)
    /\ \A c \in Range(table.cols) : SameValue(rec[c], table.rows[n][c])

OnlyRowsMatch(recs, table, other) ==
    LET lone == {n \in DOMAIN table.rows :
                    KeyOf(table.rows[n], key_columns) \notin TableKeys(other)}
    IN  /\ Len(recs) = Cardinality(lone)
        /\ \A n \in lone : \E m \in DOMAIN recs : SameRow(recs[m], table, n)
        /\ \A m \in DOMAIN recs : \E n \in lone : SameRow(recs[m], table, n)

C3_ChunkSizeInvariant ==
    (pc = "returned" /\ args.chunk_size > 0) =>
        /\ visited = common_keys
        /\ (prev.ok /\ prev.chunk_size > 0) =>
                returned.value.value_differences = prev.value.value_differences

C3_Witness ==
    /\ pc = "returned"
    /\ prev.ok
    /\ prev.chunk_size = 1
    /\ args.chunk_size = 2
    /\ Len(returned.value.value_differences) = 2

\* The Series of the one row of the indexed frame df that key labels.
RowAtKey(df, key) == SeriesAt(df, CHOOSE n \in DOMAIN df.index : df.index[n] = key)

\* The compare columns judged unequal for a key on both sides.
UnequalColumns(key) ==
    {c \in Range(compare_columns) :
        CellDiffers(CellOf(RowAtKey(hana_df, key), c), CellOf(RowAtKey(snowflake_df, key), c))}

\* The keys both tables hold, as the indexed frames label them.
BothSides == Range(hana_df.index) \cap Range(snowflake_df.index)

Reported == returned.value.value_differences

\* C4: in a result returned for a positive chunk_size, a key has a record in
\* value_differences if and only if both tables hold it and some compare column
\* is judged unequal between its two rows; it has one record only, and the
\* record's differences are exactly the unequal columns, each with the source
\* cell and the target cell.
C4_DifferencesExact ==
    (pc = "returned" /\ args.chunk_size > 0) =>
        /\ {Reported[n].key : n \in DOMAIN Reported}
              = {KeyDict(key_columns, k) : k \in {b \in BothSides : UnequalColumns(b) # {}}}
        /\ \A n, m \in DOMAIN Reported : Reported[n].key = Reported[m].key => n = m
        /\ \A n \in DOMAIN Reported : \A k \in BothSides :
              Reported[n].key = KeyDict(key_columns, k) =>
                  /\ DOMAIN Reported[n].differences = UnequalColumns(k)
                  /\ \A c \in UnequalColumns(k) :
                        /\ Reported[n].differences[c].hana_value
                              = CellOf(RowAtKey(hana_df, k), c)
                        /\ Reported[n].differences[c].snowflake_value
                              = CellOf(RowAtKey(snowflake_df, k), c)

\* One common key differs and is reported, another is equal and is not.
C4_Witness ==
    /\ pc = "returned"
    /\ args.chunk_size > 0
    /\ Len(Reported) = 1
    /\ Len(common_keys) = 2
    /\ \E c \in DOMAIN Reported[1].differences :
          Reported[1].differences[c].hana_value # Reported[1].differences[c].snowflake_value

\* The driver's cell for common key k in column c of a table (None when the
\* table has no such column).
DriverCell(table, k, c) ==
    IF c \in Range(table.cols)
    THEN table.rows[CHOOSE n \in DOMAIN table.rows :
                        KeyOf(table.rows[n], key_columns) = NativeKey(k)][c]
    ELSE DbNone

\* Key k has a record in value_differences that lists column c.
IsReported(k, c) ==
    \E n \in DOMAIN Reported :
        Reported[n].key = KeyDict(key_columns, k) /\ c \in DOMAIN Reported[n].differences

IsNumber(d) == d.t \in {"int", "float"}

\* C5: in a result returned for a positive chunk_size, for every common key and
\* compare column whose two values are both numbers (integer or floating-point),
\* a difference is recorded if and only if the values are more than 1e-10 apart.
C5_NumericTolerance ==
    (pc = "returned" /\ args.chunk_size > 0) =>
        \A k \in BothSides : \A c \in Range(compare_columns) :
            LET a == DriverCell(hana_table, k, c)
                b == DriverCell(snowflake_table, k, c)
            IN  (IsNumber(a) /\ IsNumber(b)) =>
                    (IsReported(k, c) <=> (a.w # b.w \/ Abs(a.f - b.f) > TolUlps))

\* C6: in a result returned for a positive chunk_size, for every common key and
\* compare column, a difference is recorded when exactly one of the two values
\* is null (a column the table lacks counts as null), and none when both are.
C6_NullAlwaysDiffers ==
    (pc = "returned" /\ args.chunk_size > 0) =>
        \A k \in BothSides : \A c \in Range(compare_columns) :
            LET a == DriverCell(hana_table, k, c)
                b == DriverCell(snowflake_table, k, c)
            IN  /\ ((a.t = "none") # (b.t = "none")) => IsReported(k, c)
                /\ (a.t = "none" /\ b.t = "none") => ~IsReported(k, c)

\* The key columns are none, or one of them is not a column of both tables.
KeyViolation ==
    \/ Len(key_columns) = 0
    \/ \E j \in DOMAIN key_columns :
          key_columns[j] \notin Range(hana_table.cols) \cap Range(snowflake_table.cols)

ErrorLogged == {"error: no key columns", "error: comparison failed"} \cap log # {}

EngineError == raised.at \in {"fetch_hana", "fetch_snowflake", "index", "loop"}

\* C8: once a fetch or the comparison has raised, the call makes no further
\* step: control is in main's except clause or past it, no result was returned,
\* no report file exists, no query was run a second time (nor the target's at
\* all, when the source's failed), and where main raises again the process ends
\* with the exception.
C8_ErrorsAbort ==
    EngineError =>
        /\ pc \in {"except", "finally", "exit"}
        /\ pc # "except" => raised.seen
        /\ ~returned.ok
        /\ report = "none"
        /\ \A s \in Sides : fetches[s] <= 1
        /\ raised.at = "fetch_hana" => fetches["snowflake"] = 0
        /\ (pc = "exit" /\ Reraises(variant)) => exit = "raised"

\* A duplicated common key raises in the chunk loop, after both fetches and the
\* partition succeeded.
C8_Witness ==
    /\ pc = "exit"
    /\ raised.at = "loop"
    /\ args.chunk_size > 0
    /\ \A s \in Sides : fetches[s] = 1
    /\ result.hana_row_count = MaxRows
    /\ raised.seen

SameButTimestamp(a, b) == [a EXCEPT !.timestamp = 0] = [b EXCEPT !.timestamp = 0]

\* C9: when a second call on the same tables with the same key columns, compare
\* columns and chunk_size returns, its result equals the first call's except
\* for the timestamp.
C9_Idempotent ==
    (pc = "returned" /\ prev.ok /\ args.chunk_size = prev.chunk_size) =>
        SameButTimestamp(returned.value, prev.value)

C9_Witness ==
    /\ pc = "returned"
    /\ prev.ok
    /\ args.chunk_size = prev.chunk_size
    /\ args.chunk_size > 0
    /\ returned.value.value_differences # <<>>
    /\ returned.value.only_in_hana # <<>>
    /\ returned.value.timestamp # prev.value.timestamp

\* The columns both tables have, less the key columns.
SharedColumns ==
    (Range(hana_table.cols) \cap Range(snowflake_table.cols)) \ Range(key_columns)

\* C10: when compare_columns is omitted, columns_compared lists exactly the
\* columns both tables have less the key columns, each once; when there is no
\* such column and the key columns are valid, neither the indexing nor the chunk
\* loop (for a chunk_size other than 0) raises, and the result returned has no
\* value_differences.
C10_ColumnResolution ==
    /\ (Partitioned /\ ~args.compare_columns.given) =>
          /\ Range(result.columns_compared) = SharedColumns
          /\ Len(result.columns_compared) = Cardinality(SharedColumns)
    /\ (pc # "main" /\ runs > 0 /\ ~args.compare_columns.given /\ SharedColumns = {}
            /\ ~KeyViolation /\ args.chunk_size # 0) =>
          /\ raised.at \notin {"index", "loop"}
          /\ pc = "returned" => /\ returned.value.columns_compared = <<>>
                                /\ returned.value.value_differences = <<>>

\* Tables sharing only their key columns, with a common key, compared to the end.
C10_Witness ==
    /\ pc = "returned"
    /\ ~args.compare_columns.given
    /\ args.chunk_size > 0
    /\ SharedColumns = {}
    /\ common_keys # <<>>
    /\ returned.value.columns_compared = <<>>

\* The compare columns that the call with the two sides exchanged (the target's
\* frame as source, the source's as target) judges unequal for a key.
SwappedUnequal(key) ==
    DOMAIN Differences(RowAtKey(snowflake_df, key), RowAtKey(hana_df, key), compare_columns)

\* C11: in a result returned for a positive chunk_size, for every common key and
\* compare column whose two values are both numbers, a difference is recorded if
\* and only if the comparison with source and target exchanged records one.
C11_NumericSymmetric ==
    (pc = "returned" /\ args.chunk_size > 0) =>
        \A k \in BothSides : \A c \in Range(compare_columns) :
            (IsNumber(DriverCell(hana_table, k, c)) /\ IsNumber(DriverCell(snowflake_table, k, c)))
                => (IsReported(k, c) <=> c \in SwappedUnequal(k))

\* A source value above the target's by more than the tolerance is reported.
C11_Witness ==
    /\ pc = "returned"
    /\ args.chunk_size > 0
    /\ \E k \in BothSides : \E c \in Range(compare_columns) :
          LET a == DriverCell(hana_table, k, c)
              b == DriverCell(snowflake_table, k, c)
          IN  /\ a.t = "float" /\ b.t = "float"
              /\ a.w = b.w /\ a.f > b.f
              /\ IsReported(k, c)

\* A key occurs more than once within one of the two tables.
HasDuplicateKey ==
    \E t \in {hana_table, snowflake_table} : \E n, m \in DOMAIN t.rows :
        n # m /\ KeyOf(t.rows[n], key_columns) = KeyOf(t.rows[m], key_columns)

\* No key has two records in recs.
OneRecordPerKey(recs) ==
    \A n, m \in DOMAIN recs :
        KeyOf(recs[n], key_columns) = KeyOf(recs[m], key_columns) => n = m

\* C12: when a key occurs more than once within a table (valid key columns,
\* positive chunk_size), the chunk loop does not raise, and a partitioned run
\* lists a key of only one side once, not once per row carrying it.
C12_DuplicateLastWins ==
    (pc # "main" /\ runs > 0 /\ ~KeyViolation /\ HasDuplicateKey /\ args.chunk_size > 0) =>
        /\ raised.at # "loop"
        /\ Partitioned => /\ OneRecordPerKey(result.only_in_hana)
                          /\ OneRecordPerKey(result.only_in_snowflake)

\* Exact value equality of two driver values: numbers and booleans by value
\* (10 == 10.0, True == 1), everything else by kind and value, null only to null.
ExactlyEqual(a, b) ==
    LET num == {"int", "float", "bool"}
    IN  IF a.t \in num /\ b.t \in num THEN a.w = b.w /\ a.f = b.f
        ELSE a.t = b.t /\ a.w = b.w

\* C13: in a result returned for a positive chunk_size, for every common key and
\* compare column whose two values are not both numbers, a difference is recorded
\* if and only if the two values are not exactly equal.
C13_NonNumericExact ==
    (pc = "returned" /\ args.chunk_size > 0) =>
        \A k \in BothSides : \A c \in Range(compare_columns) :
            LET a == DriverCell(hana_table, k, c)
                b == DriverCell(snowflake_table, k, c)
            IN  ~(IsNumber(a) /\ IsNumber(b)) => (IsReported(k, c) <=> ~ExactlyEqual(a, b))

\* The place of the key of a record among the common keys as enumerated.
PlaceOf(rec) ==
    CHOOSE n \in DOMAIN common_keys : KeyDict(key_columns, common_keys[n]) = rec.key

KeysOf(recs) == [n \in DOMAIN recs |-> recs[n].key]

\* C14: in a result returned for a positive chunk_size, every record of
\* value_differences is for a common key, the records follow one another as
\* their keys do in the common-key enumeration (so no key has two), and a
\* repeated call with any positive chunk_size lists the same keys in the same
\* order.
C14_DifferencesInKeyOrder ==
    (pc = "returned" /\ args.chunk_size > 0) =>
        /\ \A n \in DOMAIN Reported :
              \E m \in DOMAIN common_keys : KeyDict(key_columns, common_keys[m]) = Reported[n].key
        /\ \A n, m \in DOMAIN Reported : n < m => PlaceOf(Reported[n]) < PlaceOf(Reported[m])
        /\ (prev.ok /\ prev.chunk_size > 0) => KeysOf(Reported) = KeysOf(prev.value.value_differences)

\* Two common keys differ; the second call, with another chunk size, lists both.
C14_Witness ==
    /\ pc = "returned"
    /\ args.chunk_size > 0
    /\ prev.ok
    /\ prev.chunk_size > 0
    /\ prev.chunk_size # args.chunk_size
    /\ Len(Reported) = 2
    /\ Reported[1].key # Reported[2].key

\* C15: in a result returned for any chunk_size, every key both tables hold that
\* has a compare column judged unequal has a record in value_differences.
C15_NoDifferenceDropped ==
    pc = "returned" =>
        \A k \in BothSides :
            UnequalColumns(k) # {} =>
                \E n \in DOMAIN Reported : Reported[n].key = KeyDict(key_columns, k)

\* C16: for each singleton, when get_connection was called and no connect
\* attempt failed, what the last call returned is a connection (not None), and
\* it is the class's current connection while the class holds one.
C16_GetConnectionOpen ==
    \A s \in Sides :
        (got[s].n > 0 /\ ~got[s].failed) =>
            /\ got[s].conn # 0
            /\ sing_conn[s] # 0 => got[s].conn = sing_conn[s]

\* C17: once close_connections has returned, neither a connector's connection
\* attribute nor a singleton class's stored connection is a closed connection.
C17_NoClosedReference ==
    pc = "exit" =>
        \A s \in Sides : conn_attr[s] \notin closed /\ sing_conn[s] \notin closed

\* C18: in every returned result, the source row count less the only_in_hana
\* rows and the target row count less the only_in_snowflake rows both equal the
\* number of common keys, value_differences has no more records than that, and
\* for two empty tables the counts are zero and the three collections empty.
C18_CountsConsistent ==
    pc = "returned" =>
        LET v == returned.value
        IN  /\ v.hana_row_count - Len(v.only_in_hana) = Len(common_keys)
            /\ v.snowflake_row_count - Len(v.only_in_snowflake) = Len(common_keys)
            /\ Len(v.value_differences) <= Len(common_keys)
            /\ (hana_table.rows = <<>> /\ snowflake_table.rows = <<>>) =>
                  /\ v.hana_row_count = 0 /\ v.snowflake_row_count = 0
                  /\ v.only_in_hana = <<>> /\ v.only_in_snowflake = <<>>
                  /\ v.value_differences = <<>>

====
